---- MODULE Spec2Model ----
(***************************************************************************)
(* Flask-Mail: Message (envelope recipients, header-safety check) and      *)
(* Connection (scoped SMTP transport handle, send, threshold recycling),   *)
(* modelled from src/src/flask_mail/__init__.py.                           *)
(*                                                                         *)
(* Text is a sequence of one-character strings.  An address value is a     *)
(* record [kind, name, addr]: kind "none" is Python's None, "str" a plain  *)
(* string (held in addr), "tuple" a (name, addr) pair.                     *)
(***************************************************************************)
EXTENDS Integers, Sequences, FiniteSets, TLC

VARIABLES
    mail,        \* the _Mail state built by init_mail (read-only afterwards)
    testing,     \* app.testing, the argument init_app hands to init_mail
    phase,       \* the Connection's position: "unopened", "open", "closed", "failed"
    host,        \* Connection.host: 0 is None, n > 0 the n-th transport handle
    num_emails,  \* Connection.num_emails
    log,         \* every transport call made so far, in order
    outbox,      \* what a record_messages() observer has received, in order
    calls,       \* history: one record per Connection.send invocation
    exitInfo,    \* history: what __exit__ saw and did
    msg,         \* the Message under construction / inspection
    verdict,     \* the result of has_bad_headers() on msg, "none" before the call
    lastAdd,     \* history: the last add_recipient call on msg
    failSilently,\* app.config's MAIL_FAIL_SILENTLY: "unset", "True" or "False"
    clock,       \* time.time(), in ticks
    ser,         \* history: the serializations of msg since it last changed
    lastAttach,  \* history: the last attach call on msg
    given        \* history: the html and alts arguments msg was constructed with

vars == <<mail, testing, phase, host, num_emails, log, outbox, calls, exitInfo,
          msg, verdict, lastAdd, failSilently, clock, ser, lastAttach, given>>

connVars == <<mail, testing, failSilently, phase, host, num_emails, log, outbox, calls,
              exitInfo>>
serVars == <<clock, ser, lastAttach, given>>
msgVars == <<msg, verdict, lastAdd, clock, ser, lastAttach, given>>

(***************************************************************************)
(* Bounds of the model.                                                    *)
(***************************************************************************)
MaxSubjectLen == 5
MaxListLen == 2
MaxRecipients == 3
MaxSends == 3
MaxEmails == 2

(***************************************************************************)
(* Text and addresses.                                                     *)
(***************************************************************************)
CR == "\r"
LF == "\n"
SP == " "
TAB == "\t"
Chars == {"a", SP, TAB, CR, LF}
Whitespace == {SP, TAB, CR, LF}

NoneAddr == [kind |-> "none", name |-> <<>>, addr |-> <<>>]
StrAddr(s) == [kind |-> "str", name |-> <<>>, addr |-> s]
TupleAddr(n, a) == [kind |-> "tuple", name |-> n, addr |-> a]

\* Python truthiness of None / str / non-empty tuple.
Truthy(x) == x.kind = "tuple" \/ (x.kind = "str" /\ x.addr # <<>>)

\* f"{header[0]} <{header[1]}>"
FormatTuple(x) == StrAddr(x.name \o <<SP, "<">> \o x.addr \o <<">">>)

SeqsUpTo(S, n) == UNION {[1..k -> S] : k \in 0..n}

ToSet(seq) == {seq[i] : i \in DOMAIN seq}

\* _has_newline: "\n" in line or "\r" in line
HasNewline(line) == \E i \in DOMAIN line : line[i] = LF \/ line[i] = CR

\* str.split("\r\n"): left to right, non-overlapping.
RECURSIVE SplitCRLF(_)
SplitCRLF(s) ==
    LET hits == {i \in 1..(Len(s) - 1) : s[i] = CR /\ s[i + 1] = LF}
    IN  IF hits = {} THEN <<s>>
        ELSE LET i == CHOOSE j \in hits : \A k \in hits : j <= k
             IN  <<SubSeq(s, 1, i - 1)>> \o SplitCRLF(SubSeq(s, i + 2, Len(s)))

\* str.strip(): leading and trailing whitespace removed.
Strip(s) ==
    LET keep == {i \in DOMAIN s : s[i] \notin Whitespace}
    IN  IF keep = {} THEN <<>>
        ELSE LET lo == CHOOSE i \in keep : \A k \in keep : i <= k
                 hi == CHOOSE i \in keep : \A k \in keep : k <= i
             IN  SubSeq(s, lo, hi)

(***************************************************************************)
(* Message.                                                                *)
(***************************************************************************)
\* None where a number is expected (a date, a handle, a limit).
None == 0

\* Python values that may be None: text (body, alternative content, file
\* name, content type) and raw bytes (attachment data).
NoText == [kind |-> "none", text |-> <<>>]
Str(t) == [kind |-> "str", text |-> t]
NoData == [kind |-> "none", bytes |-> <<>>]
Bytes(b) == [kind |-> "bytes", bytes |-> b]

\* dict as a sequence of [k, v] records in insertion order.
DictKeys(d) == {d[i].k : i \in DOMAIN d}
DictSet(d, key, value) ==
    IF key \in DictKeys(d)
    THEN [i \in DOMAIN d |-> IF d[i].k = key THEN [k |-> key, v |-> value] ELSE d[i]]
    ELSE Append(d, [k |-> key, v |-> value])
DictPop(d, key) == SelectSeq(d, LAMBDA e : e.k # key)

\* dict.get(key): None when the key is absent.
DictGet(d, key) ==
    IF key \in DictKeys(d)
    THEN Str(d[CHOOSE i \in DOMAIN d : d[i].k = key].v)
    ELSE NoText

HTML == "html"

\* The html property: alts.get("html").
Html(m) == DictGet(m.alts, HTML)

\* The html setter: None removes the "html" alternative, a value stores it.
SetHtml(alts, value) ==
    IF value.kind = "none" THEN DictPop(alts, HTML) ELSE DictSet(alts, HTML, value.text)

\* mimetypes.guess_type(filename)[0] on the file names of this model.
GuessType(filename) ==
    IF filename = <<"a", ".", "t", "x", "t">> THEN Str(<<"text", "plain">>) ELSE NoText

\* Attachment.__init__: data is required; the content type is guessed from
\* the file name, else "application/octet-stream" for bytes; disposition
\* defaults to "attachment"; headers (a dict, [] for None) are kept as given.
\* A content type is held as <<maintype, subtype>>.
AttachmentNew(filename, content_type, data, disposition, headers) ==
    IF data.kind = "none" THEN [raised |-> "ValueError", att |-> data]
    ELSE LET ct0 == IF content_type.kind = "none" /\ filename.kind # "none"
                    THEN GuessType(filename.text) ELSE content_type
             ct1 == IF ct0.kind = "none" THEN <<"application", "octet-stream">>
                    ELSE ct0.text
         IN  [raised |-> "",
              att |-> [filename |-> filename, content_type |-> ct1, data |-> data,
                       disposition |-> IF disposition.kind = "none" \/ disposition.text = <<>>
                                       THEN <<"attachment">> ELSE disposition.text,
                       headers |-> headers]]

\* Variant of the Attachment constructor that accepts a missing payload.
AttachmentInitDataOptional(filename, content_type, data, disposition) ==
    [raised |-> "",
     att |-> [filename |-> filename, content_type |-> <<"application", "octet-stream">>,
              data |-> data, disposition |-> <<"attachment">>, headers |-> <<>>]]
\* Attachment(filename, content_type, data, disposition): no extra headers.
AttachmentInit(filename, content_type, data, disposition) ==
    AttachmentNew(filename, content_type, data, disposition, <<>>)

\* Message.__init__: sender = sender or default_sender; a tuple sender is
\* formatted to "name <addr>"; absent lists become []; alts is copied and
\* then the html setter runs; msgId is the fresh make_msgid() value.
MessageNew(subject, recipients, body, html, alts, sender, cc, bcc, attachments, reply_to, date, extra_headers, mail_options, rcpt_options, default_sender, msgId) ==
    LET s0 == IF Truthy(sender) THEN sender ELSE default_sender
        s1 == IF s0.kind = "tuple" THEN FormatTuple(s0) ELSE s0
    IN  [subject |-> subject, sender |-> s1, recipients |-> recipients,
         cc |-> cc, bcc |-> bcc, reply_to |-> reply_to, date |-> date,
         body |-> body, alts |-> SetHtml(alts, html), msgId |-> msgId,
         extra_headers |-> extra_headers, mail_options |-> mail_options,
         rcpt_options |-> rcpt_options, attachments |-> attachments]

\* The constructor called with the addressing arguments only.
MessageInit(subject, recipients, sender, cc, bcc, reply_to, date, default_sender) ==
    MessageNew(subject, recipients, NoText, NoText, <<>>, sender, cc, bcc, <<>>,
               reply_to, date, <<>>, <<>>, <<>>, default_sender, 1)

\* Message.send_to
\* Variant of send_to that forgets cc.
SendToNoCc(m) == ToSet(m.recipients) \cup ToSet(m.bcc)
SendTo(m) ==
    LET out0 == ToSet(m.recipients)
        out1 == IF m.bcc # <<>> THEN out0 \cup ToSet(m.bcc) ELSE out0
    IN  IF m.cc # <<>> THEN out1 \cup ToSet(m.cc) ELSE out1

\* Message.add_recipient
AddRecipientOp(m, r) == [m EXCEPT !.recipients = Append(@, r)]

\* The subject part of has_bad_headers (the loop over subject.split("\r\n")).
BadLine(linenum, line) ==
    \/ line = <<>>
    \/ (linenum > 0 /\ line[1] \notin {TAB, SP})
    \/ HasNewline(line)
    \/ Len(Strip(line)) = 0

\* Variant of the subject check: a blanket ban on CR and LF.
SubjectBadAnyNewline(subject) == subject # <<>> /\ HasNewline(subject)
SubjectBad(subject) ==
    /\ subject # <<>>
    /\ HasNewline(subject)
    /\ LET lines == SplitCRLF(subject)
       IN  \E k \in DOMAIN lines : BadLine(k - 1, lines[k])

\* The headers list of has_bad_headers: [sender, *recipients] (+ reply_to).
HeaderList(m) ==
    <<m.sender>> \o m.recipients \o (IF Truthy(m.reply_to) THEN <<m.reply_to>> ELSE <<>>)

\* Message.has_bad_headers: "True", "False", or "TypeError" when the scan
\* reaches a header that is None ('"\n" in None' raises).  The scan stops at
\* the first header that decides.
RECURSIVE ScanHeaders(_, _)
ScanHeaders(headers, i) ==
    IF i > Len(headers) THEN "False"
    ELSE LET h == IF headers[i].kind = "tuple" THEN FormatTuple(headers[i])
                  ELSE headers[i]
         IN  IF h.kind = "none" THEN "TypeError"
             ELSE IF HasNewline(h.addr) THEN "True"
             ELSE ScanHeaders(headers, i + 1)

HasBadHeaders(m) ==
    LET a == ScanHeaders(HeaderList(m), 1)
    IN  IF a # "False" THEN a
        ELSE IF SubjectBad(m.subject) THEN "True" ELSE "False"

(***************************************************************************)
(* Attachments and serialization (Message.attach, sanitize_address,        *)
(* Message._message, as_string / as_bytes).                                *)
(***************************************************************************)
\* Message.attach: the Attachment is constructed first, then appended.
AttachOp(m, filename, content_type, data, disposition) ==
    LET a == AttachmentInit(filename, content_type, data, disposition)
    IN  IF a.raised # "" THEN [raised |-> a.raised, m |-> m]
        ELSE [raised |-> "", m |-> [m EXCEPT !.attachments = Append(@, a.att)]]

\* email.utils.parseaddr on the address texts of this model: "name <addr>"
\* gives (name, addr); a text without "<" gives ("", text), cut at the first
\* blank.  (A str address with CR or LF is not sent by any specification: the
\* tuple form is the one that carries a line break through sanitize_address.)
ParseAddr(s) ==
    LET lt == {i \in DOMAIN s : s[i] = "<"}
    IN  IF lt # {}
        THEN LET i == CHOOSE j \in lt : \A k \in lt : j <= k
                 gt == {j \in (i + 1)..Len(s) : s[j] = ">"}
                 e == IF gt = {} THEN Len(s) + 1
                      ELSE CHOOSE j \in gt : \A k \in gt : j <= k
             IN  [name |-> Strip(SubSeq(s, 1, i - 1)), addr |-> SubSeq(s, i + 1, e - 1)]
        ELSE LET t == Strip(SelectSeq(s, LAMBDA c : c \notin {CR, LF}))
                 ws == {i \in DOMAIN t : t[i] \in Whitespace}
                 e == IF ws = {} THEN Len(t) + 1
                      ELSE CHOOSE j \in ws : \A k \in ws : j <= k
             IN  [name |-> <<>>, addr |-> SubSeq(t, 1, e - 1)]

\* Header(nm, "utf-8").encode(): empty stays empty, anything else becomes
\* one q-encoded word (a space is written "_").
EncodedWord(nm) ==
    IF nm = <<>> THEN <<>>
    ELSE <<"=", "?", "u", "t", "f", "-", "8", "?", "q", "?">>
         \o [i \in DOMAIN nm |-> IF nm[i] = SP THEN "_" ELSE nm[i]]
         \o <<"?", "=">>

\* sanitize_address on an ASCII address: parse a str, encode the name,
\* formataddr.  sanitize_address(None) raises on unpacking; callers guard.
SanitizeAddress(x) ==
    LET p == IF x.kind = "str" THEN ParseAddr(x.addr) ELSE [name |-> x.name, addr |-> x.addr]
        nm == EncodedWord(p.name)
    IN  IF nm = <<>> THEN p.addr ELSE nm \o <<SP, "<">> \o p.addr \o <<">">>

\* sanitize_addresses
SanitizeAddresses(addresses) == [i \in DOMAIN addresses |-> SanitizeAddress(addresses[i])]

\* The base64 alphabet and email.encoders.encode_base64 on a payload of
\* at most 57 bytes (one output line, newline-terminated; empty stays empty).
B64Alphabet ==
    <<"A", "B", "C", "D", "E", "F", "G", "H", "I", "J", "K", "L", "M", "N", "O", "P",
      "Q", "R", "S", "T", "U", "V", "W", "X", "Y", "Z", "a", "b", "c", "d", "e", "f",
      "g", "h", "i", "j", "k", "l", "m", "n", "o", "p", "q", "r", "s", "t", "u", "v",
      "w", "x", "y", "z", "0", "1", "2", "3", "4", "5", "6", "7", "8", "9", "+", "/">>
B64Char(n) == B64Alphabet[n + 1]

RECURSIVE B64Groups(_)
B64Groups(b) ==
    IF Len(b) = 0 THEN <<>>
    ELSE IF Len(b) = 1
    THEN <<B64Char(b[1] \div 4), B64Char((b[1] % 4) * 16), "=", "=">>
    ELSE IF Len(b) = 2
    THEN <<B64Char(b[1] \div 4), B64Char((b[1] % 4) * 16 + b[2] \div 16),
           B64Char((b[2] % 16) * 4), "=">>
    ELSE <<B64Char(b[1] \div 4), B64Char((b[1] % 4) * 16 + b[2] \div 16),
           B64Char((b[2] % 16) * 4 + b[3] \div 64), B64Char(b[3] % 64)>>
         \o B64Groups(SubSeq(b, 4, Len(b)))

\* Variant of the encoder that drops an incomplete final group.
EncodeBase64WholeGroups(b) ==
    IF Len(b) < 3 THEN <<>> ELSE B64Groups(SubSeq(b, 1, 3 * (Len(b) \div 3))) \o <<LF>>
EncodeBase64(b) == IF b = <<>> THEN <<>> ELSE B64Groups(b) \o <<LF>>

\* email.utils.formatdate(timeval, localtime=True) shows the time to the
\* second; time values (time.time(), Message.date) are counted in ticks.
TicksPerSecond == 2
FormatDate(timeval) == timeval \div TicksPerSecond

\* A MIME part as the generator writes it.  A payload of None is written as
\* the empty text; a multipart without a boundary is given a random one at
\* every flattening.
NoBoundary == 0
MimeText(text, subtype) ==
    [ctype |-> <<"text", subtype>>, cte |-> "7bit", disposition |-> NoText,
     filename |-> NoText, payload |-> IF text.kind = "none" THEN <<>> ELSE text.text,
     parts |-> <<>>, boundary |-> NoBoundary, headers |-> <<>>]

MimeMultipart(subtype, parts, boundary) ==
    [ctype |-> <<"multipart", subtype>>, cte |-> "", disposition |-> NoText,
     filename |-> NoText, payload |-> <<>>, parts |-> parts, boundary |-> boundary,
     headers |-> <<>>]

\* Characters outside ASCII are held by their code point: "U+00FC" is u with
\* diaeresis, "U+0308" the combining diaeresis, "U+2190" the leftwards arrow.
UUml == "U+00FC"
Diaeresis == "U+0308"
Arrow == "U+2190"
NonAscii == {UUml, Diaeresis, Arrow}

\* filename.encode("ascii") succeeds.
IsAscii(t) == \A i \in DOMAIN t : t[i] \notin NonAscii

RECURSIVE Concat(_)
Concat(ss) == IF ss = <<>> THEN <<>> ELSE Head(ss) \o Concat(Tail(ss))

\* unicodedata.normalize("NFKD", filename) on the characters of this model.
NFKD(t) == Concat([i \in DOMAIN t |-> IF t[i] = UUml THEN <<"u", Diaeresis>> ELSE <<t[i]>>])

\* filename.encode("ascii", "ignore").decode("ascii")
AsciiIgnore(t) == SelectSeq(t, LAMBDA c : c \notin NonAscii)

\* SPACES.sub(" ", filename): every run of whitespace becomes one blank.
RECURSIVE CollapseSpaces(_)
CollapseSpaces(t) ==
    IF t = <<>> THEN <<>>
    ELSE IF Head(t) \in Whitespace
         THEN IF Len(t) > 1 /\ t[2] \in Whitespace THEN CollapseSpaces(Tail(t))
              ELSE <<SP>> \o CollapseSpaces(Tail(t))
         ELSE <<Head(t)>> \o CollapseSpaces(Tail(t))

\* The file name under MAIL_ASCII_ATTACHMENTS: decompose, drop what is not
\* ASCII, collapse whitespace, trim.
ForceAscii(t) == Strip(CollapseSpaces(AsciiIgnore(NFKD(t))))

\* email.utils.encode_rfc2231's urllib.parse.quote(s, safe="", encoding="UTF8")
\* on the characters of this model: the UTF-8 bytes of what is not unreserved.
PercentEncode(t) ==
    Concat([i \in DOMAIN t |->
              IF t[i] = SP THEN <<"%", "2", "0">>
              ELSE IF t[i] = UUml THEN <<"%", "C", "3", "%", "B", "C">>
              ELSE IF t[i] = Diaeresis THEN <<"%", "C", "C", "%", "8", "8">>
              ELSE IF t[i] = Arrow THEN <<"%", "E", "2", "%", "8", "6", "%", "9", "0">>
              ELSE <<t[i]>>])

\* Message.add_header's parameter formatting: a (charset, language, value)
\* tuple gives filename*=UTF8''<percent-encoded>, an empty value the bare
\* parameter name, any other value filename="<value>".
FormatParam(filename, extended) ==
    IF extended
    THEN <<"f", "i", "l", "e", "n", "a", "m", "e", "*", "=", "U", "T", "F", "8", "'", "'">>
         \o PercentEncode(filename)
    ELSE IF filename = <<>>
    THEN <<"f", "i", "l", "e", "n", "a", "m", "e">>
    ELSE <<"f", "i", "l", "e", "n", "a", "m", "e", "=", "\"">> \o filename \o <<"\"">>

\* The Content-Disposition value: the extended form when the name cannot be
\* ASCII-encoded.
ContentDisposition(disposition, filename) ==
    disposition \o <<";", SP>> \o FormatParam(filename, ~IsAscii(filename))

\* Variant of the attachment part that writes Content-Disposition always,
\* with an empty name for an attachment without a file name.
MimeAttachmentAlwaysDisposition(a) ==
    LET name == IF a.filename.kind = "none" THEN <<>> ELSE a.filename.text
    IN  [ctype |-> a.content_type, cte |-> "base64", disposition |-> Str(a.disposition),
         filename |-> Str(name), payload |-> EncodeBase64(a.data.bytes),
         parts |-> <<>>, boundary |-> NoBoundary,
         headers |-> <<[k |-> "Content-Disposition",
                        v |-> ContentDisposition(a.disposition, name)]>> \o a.headers]
\* One attachment: MIMEBase(*content_type.split("/")), set_payload,
\* encode_base64; Content-Disposition only when there is a file name, forced
\* to ASCII under mail.ascii_attachments; then the attachment's own headers.
\* The part's headers after Content-Type, MIME-Version and
\* Content-Transfer-Encoding are listed in "headers", in order.
MimeAttachment(a) ==
    LET name == IF a.filename.kind = "none" THEN <<>>
                ELSE IF mail.ascii_attachments THEN ForceAscii(a.filename.text)
                ELSE a.filename.text
        cd == IF a.filename.kind = "none" THEN <<>>
              ELSE <<[k |-> "Content-Disposition",
                      v |-> ContentDisposition(a.disposition, name)]>>
    IN  [ctype |-> a.content_type, cte |-> "base64",
         disposition |-> IF a.filename.kind # "none" THEN Str(a.disposition) ELSE NoText,
         filename |-> IF a.filename.kind # "none" THEN Str(name) ELSE NoText,
         payload |-> EncodeBase64(a.data.bytes),
         parts |-> <<>>, boundary |-> NoBoundary, headers |-> cd \o a.headers]

\* Variant of the structure that writes the alternatives before the plain part.
MimeRootPlainLast(m, bs) ==
    LET files == [i \in DOMAIN m.attachments |-> MimeAttachment(m.attachments[i])]
        others == [i \in DOMAIN m.alts |-> MimeText(Str(m.alts[i].v), m.alts[i].k)]
    IN  IF Len(m.attachments) = 0 /\ m.alts = <<>>
        THEN MimeText(m.body, "plain")
        ELSE IF m.alts = <<>>
        THEN MimeMultipart("mixed", <<MimeText(m.body, "plain")>> \o files, bs[1])
        ELSE MimeMultipart("mixed",
                 <<MimeMultipart("alternative",
                                 others \o <<MimeText(m.body, "plain")>>, bs[2])>>
                 \o files, bs[1])
\* Message._message, the MIME structure: plain text alone; multipart/mixed
\* with the body and the attachments; or multipart/mixed holding a
\* multipart/alternative (plain, then every alternative) and the attachments.
\* bs = <<outer boundary, inner boundary>>.
MimeRoot(m, bs) ==
    LET files == [i \in DOMAIN m.attachments |-> MimeAttachment(m.attachments[i])]
        others == [i \in DOMAIN m.alts |-> MimeText(Str(m.alts[i].v), m.alts[i].k)]
    IN  IF Len(m.attachments) = 0 /\ m.alts = <<>>
        THEN MimeText(m.body, "plain")
        ELSE IF m.alts = <<>>
        THEN MimeMultipart("mixed", <<MimeText(m.body, "plain")>> \o files, bs[1])
        ELSE MimeMultipart("mixed",
                 <<MimeMultipart("alternative",
                                 <<MimeText(m.body, "plain")>> \o others, bs[2])>>
                 \o files, bs[1])

\* Variant of the headers whose To is built from every envelope recipient.
MimeHeadersToAll(m, now) ==
    [Subject |-> [present |-> m.subject # <<>>, value |-> m.subject],
     From |-> SanitizeAddress(m.sender),
     To |-> {SanitizeAddress(a) : a \in SendTo(m)},
     Date |-> FormatDate(IF m.date = None THEN now ELSE m.date),
     MessageID |-> m.msgId,
     Cc |-> [present |-> m.cc # <<>>, value |-> ToSet(SanitizeAddresses(m.cc))],
     ReplyTo |-> [present |-> Truthy(m.reply_to),
                  value |-> IF Truthy(m.reply_to) THEN SanitizeAddress(m.reply_to)
                            ELSE <<>>],
     extra |-> m.extra_headers]
\* Message._message, the headers.  To and Cc are joined from a set, so
\* their order is not determined: each is held as the set joined.
MimeHeaders(m, now) ==
    [Subject |-> [present |-> m.subject # <<>>, value |-> m.subject],
     From |-> SanitizeAddress(m.sender),
     To |-> ToSet(SanitizeAddresses(m.recipients)),
     Date |-> FormatDate(IF m.date = None THEN now ELSE m.date),
     MessageID |-> m.msgId,
     Cc |-> [present |-> m.cc # <<>>, value |-> ToSet(SanitizeAddresses(m.cc))],
     ReplyTo |-> [present |-> Truthy(m.reply_to),
                  value |-> IF Truthy(m.reply_to) THEN SanitizeAddress(m.reply_to)
                            ELSE <<>>],
     extra |-> m.extra_headers]

\* Message.as_bytes / as_string / __str__: _message() flattened at clock
\* time now.  Without a sender sanitize_address(None) raises TypeError.
AsBytes(m, now, bs) ==
    IF m.sender.kind = "none"
    THEN [raised |-> "TypeError", headers |-> <<>>, root |-> <<>>]
    ELSE [raised |-> "", headers |-> MimeHeaders(m, now), root |-> MimeRoot(m, bs)]

(***************************************************************************)
(* The state of a Connection that nothing has touched, and of a message    *)
(* nobody inspects: what each specification holds fixed when it is about   *)
(* the other half of the program.                                          *)
(***************************************************************************)
NoExit == [done |-> FALSE, host |-> None, open |-> FALSE, log0 |-> 0,
           afterError |-> FALSE, scope |-> "with"]
NoAdd == [done |-> FALSE, before |-> 0, present |-> FALSE]
NoAttach == [done |-> FALSE, raised |-> "", before |-> <<>>, data |-> NoData]
NoGiven == [done |-> FALSE, html |-> NoText, alts |-> <<>>]
DefaultMail == [suppress |-> FALSE, max_emails |-> None, default_sender |-> NoneAddr,
                use_tls |-> FALSE, login |-> FALSE, ascii_attachments |-> FALSE]

ConnIdle ==
    /\ mail = DefaultMail
    /\ testing = FALSE
    /\ failSilently = "unset"
    /\ phase = "unopened"
    /\ host = None
    /\ num_emails = 0
    /\ log = <<>>
    /\ outbox = <<>>
    /\ calls = <<>>
    /\ exitInfo = NoExit

SerIdle ==
    /\ clock = 1
    /\ ser = <<>>
    /\ lastAttach = NoAttach
    /\ given = NoGiven

A1 == StrAddr(<<"a">>)
A2 == StrAddr(<<"b">>)
A3 == TupleAddr(<<"n">>, <<"a">>)
BadLF == StrAddr(<<"a", LF>>)
BadCR == StrAddr(<<CR, "b">>)
BadTuple == TupleAddr(<<"n", LF>>, <<"a">>)
BadCc == TupleAddr(<<"n">>, <<"b", LF>>)

(***************************************************************************)
(* SpecHeaders: has_bad_headers() applied to a constructed message.        *)
(***************************************************************************)
HeaderSenders == {NoneAddr, A1, BadTuple}
HeaderRecipients == {<<>>, <<A3, A2>>, <<A1, BadLF>>}
HeaderReplyTos == {NoneAddr, A2, BadCR}

InitHeaders ==
    /\ ConnIdle
    /\ \E subject \in SeqsUpTo(Chars, MaxSubjectLen), sender \in HeaderSenders,
          recipients \in HeaderRecipients, reply_to \in HeaderReplyTos :
          msg = MessageInit(subject, recipients, sender, <<>>, <<>>, reply_to, None,
                            NoneAddr)
    /\ verdict = "none"
    /\ lastAdd = NoAdd
    /\ SerIdle

CheckHeaders ==
    /\ verdict = "none"
    /\ verdict' = HasBadHeaders(msg)
    /\ UNCHANGED <<msg, lastAdd>>
    /\ UNCHANGED serVars
    /\ UNCHANGED connVars

NextHeaders == CheckHeaders

SpecHeaders == InitHeaders /\ [][NextHeaders]_vars

(***************************************************************************)
(* SpecMsg: construction followed by add_recipient calls.                  *)
(***************************************************************************)
Addrs == {A1, A2, A3}

InitMsg ==
    /\ ConnIdle
    /\ \E recipients \in SeqsUpTo(Addrs, MaxListLen), cc \in SeqsUpTo(Addrs, MaxListLen),
          bcc \in SeqsUpTo(Addrs, MaxListLen) :
          msg = MessageInit(<<"a">>, recipients, A1, cc, bcc, NoneAddr, None, NoneAddr)
    /\ verdict = "none"
    /\ lastAdd = NoAdd
    /\ SerIdle

AddRecipient ==
    /\ Len(msg.recipients) < MaxRecipients
    /\ \E r \in Addrs :
          /\ msg' = AddRecipientOp(msg, r)
          /\ lastAdd' = [done |-> TRUE, before |-> Cardinality(SendTo(msg)),
                         present |-> \/ r \in ToSet(msg.recipients)
                                     \/ r \in ToSet(msg.cc)
                                     \/ r \in ToSet(msg.bcc)]
    /\ UNCHANGED verdict
    /\ UNCHANGED serVars
    /\ UNCHANGED connVars

NextMsg == AddRecipient

SpecMsg == InitMsg /\ [][NextMsg]_vars

(***************************************************************************)
(* Mail: configuration resolved once by init_mail.  A config is a function *)
(* whose domain is the set of keys the application has set.                *)
(***************************************************************************)
Get(config, key, default) == IF key \in DOMAIN config THEN config[key] ELSE default

\* Mail.init_mail; login is "self.mail.username and self.mail.password".
InitMail(config, t) ==
    [suppress |-> Get(config, "MAIL_SUPPRESS_SEND", t),
     max_emails |-> Get(config, "MAIL_MAX_EMAILS", None),
     default_sender |-> Get(config, "MAIL_DEFAULT_SENDER", NoneAddr),
     use_tls |-> Get(config, "MAIL_USE_TLS", FALSE),
     login |-> Get(config, "MAIL_USERNAME", "") # ""
               /\ Get(config, "MAIL_PASSWORD", "") # "",
     ascii_attachments |-> Get(config, "MAIL_ASCII_ATTACHMENTS", FALSE)]

Unset == [k \in {} |-> k]
Configs ==
    {s @@ m @@ d @@ au :
        s \in {Unset} \cup {"MAIL_SUPPRESS_SEND" :> b : b \in BOOLEAN},
        m \in {Unset} \cup {"MAIL_MAX_EMAILS" :> n : n \in 1..MaxEmails},
        d \in {Unset, "MAIL_DEFAULT_SENDER" :> A2},
        au \in {Unset, "MAIL_USE_TLS" :> TRUE,
                ("MAIL_USERNAME" :> "u") @@ ("MAIL_PASSWORD" :> "p")}}

(***************************************************************************)
(* The transport (smtplib) as the calls made on it.  A handle is open from *)
(* its successful connect until its quit; a sendmail or quit on a handle   *)
(* that is not open raises SMTPServerDisconnected.                         *)
(***************************************************************************)
Call(op, h, m, ok) == [op |-> op, h |-> h, msg |-> m, ok |-> ok]

NextHandle(lg) == 1 + Cardinality({i \in DOMAIN lg : lg[i].op = "connect"})

\* Variant of the transport whose handles stay usable after quit.
IsOpenIgnoringQuit(lg, h) ==
    \E i \in DOMAIN lg : lg[i].op = "connect" /\ lg[i].h = h /\ lg[i].ok
IsOpen(lg, h) ==
    /\ \E i \in DOMAIN lg : lg[i].op = "connect" /\ lg[i].h = h /\ lg[i].ok
    /\ ~\E i \in DOMAIN lg : lg[i].op = "quit" /\ lg[i].h = h

\* The steps of configure_host that can raise under the configuration.
HostOutcomes ==
    {"ok", "connect"} \cup (IF mail.use_tls THEN {"starttls"} ELSE {})
                      \cup (IF mail.login THEN {"login"} ELSE {})

\* Connection.configure_host: SMTP(...) connects, then starttls and login as
\* configured; o names the step that raises, "ok" for none.
ConfigureHost(lg, o) ==
    LET h == NextHandle(lg)
        l1 == Append(lg, Call("connect", h, 0, o # "connect"))
        l2 == IF mail.use_tls THEN Append(l1, Call("starttls", h, 0, o # "starttls"))
              ELSE l1
        l3 == IF mail.login THEN Append(l2, Call("login", h, 0, o # "login")) ELSE l2
    IN  IF o = "connect" THEN [log |-> l1, host |-> None, raised |-> TRUE]
        ELSE IF mail.use_tls /\ o = "starttls" THEN [log |-> l2, host |-> None, raised |-> TRUE]
        ELSE IF mail.login /\ o = "login" THEN [log |-> l3, host |-> None, raised |-> TRUE]
        ELSE [log |-> l3, host |-> h, raised |-> FALSE]

(***************************************************************************)
(* Connection.  A connection state s is the record of the variables        *)
(* phase, host, num_emails, log, outbox, calls, exitInfo.                  *)
(***************************************************************************)
Cur == [phase |-> phase, host |-> host, num_emails |-> num_emails, log |-> log,
        outbox |-> outbox, calls |-> calls, exitInfo |-> exitInfo]

Apply(s) ==
    /\ phase' = s.phase
    /\ host' = s.host
    /\ num_emails' = s.num_emails
    /\ log' = s.log
    /\ outbox' = s.outbox
    /\ calls' = s.calls
    /\ exitInfo' = s.exitInfo

\* Variant of __enter__ that swallows the error when MAIL_FAIL_SILENTLY is set.
EnterOpFailSilently(s, o) ==
    IF mail.suppress
    THEN [s EXCEPT !.host = None, !.num_emails = 0, !.phase = "open"]
    ELSE LET r == ConfigureHost(s.log, o)
         IN  IF r.raised /\ failSilently # "True"
             THEN [s EXCEPT !.log = r.log, !.phase = "failed"]
             ELSE [s EXCEPT !.host = r.host, !.log = r.log, !.num_emails = 0,
                            !.phase = "open"]
\* Connection.__enter__; when configure_host raises, the with body never runs.
EnterOp(s, o) ==
    IF mail.suppress
    THEN [s EXCEPT !.host = None, !.num_emails = 0, !.phase = "open"]
    ELSE LET r == ConfigureHost(s.log, o)
         IN  IF r.raised THEN [s EXCEPT !.log = r.log, !.phase = "failed"]
             ELSE [s EXCEPT !.host = r.host, !.log = r.log, !.num_emails = 0,
                            !.phase = "open"]

\* Variant of __exit__ that skips quit when the last send raised.
ExitOpUnlessError(s) ==
    LET raised == s.calls # <<>> /\ s.calls[Len(s.calls)].result # "ok"
        info == [done |-> TRUE, host |-> s.host, open |-> IsOpen(s.log, s.host),
                 log0 |-> Len(s.log), afterError |-> raised, scope |-> "with"]
    IN  [s EXCEPT !.phase = "closed",
                  !.exitInfo = info,
                  !.log = IF s.host # None /\ ~raised
                          THEN Append(@, Call("quit", s.host, 0, IsOpen(s.log, s.host)))
                          ELSE @]
\* Connection.__exit__
ExitOp(s) ==
    LET info == [done |-> TRUE, host |-> s.host, open |-> IsOpen(s.log, s.host),
                 log0 |-> Len(s.log),
                 afterError |-> /\ s.calls # <<>>
                                /\ s.calls[Len(s.calls)].result # "ok",
                 scope |-> "with"]
    IN  [s EXCEPT !.phase = "closed",
                  !.exitInfo = info,
                  !.log = IF s.host # None
                          THEN Append(@, Call("quit", s.host, 0, IsOpen(s.log, s.host)))
                          ELSE @]

\* Variant of the checks without the two asserts.
PrecheckNoAsserts(m) ==
    LET b == HasBadHeaders(m)
    IN  IF b = "True" THEN "BadHeaderError"
        ELSE IF b = "TypeError" THEN "TypeError"
        ELSE "ok"
\* Variant of the checks without the header check.
PrecheckNoHeaderCheck(m) ==
    IF SendTo(m) = {} THEN "AssertionError"
    ELSE IF ~Truthy(m.sender) THEN "AssertionError"
    ELSE "ok"
\* The two asserts and the header check that open Connection.send.
Precheck(m) ==
    IF SendTo(m) = {} THEN "AssertionError"
    ELSE IF ~Truthy(m.sender) THEN "AssertionError"
    ELSE LET b == HasBadHeaders(m)
         IN  IF b = "True" THEN "BadHeaderError"
             ELSE IF b = "TypeError" THEN "TypeError"
             ELSE "ok"

\* time.time() as a logical clock: the number of the send invocation.
Now(s) == Len(s.calls) + 1

\* Variant of the threshold branch that reconnects before it quits.
RecycleOpenBeforeQuit(s, o) ==
    IF s.host = None THEN [s |-> [s EXCEPT !.num_emails = 0], raised |-> FALSE]
    ELSE LET r == ConfigureHost(s.log, o)
             l1 == Append(r.log, Call("quit", s.host, 0, IsOpen(s.log, s.host)))
         IN  IF r.raised
             THEN [s |-> [s EXCEPT !.num_emails = 0, !.log = r.log], raised |-> TRUE]
             ELSE [s |-> [s EXCEPT !.num_emails = 0, !.log = l1, !.host = r.host],
                   raised |-> FALSE]
\* Variant of the threshold branch that leaves the counter as it is.
RecycleKeepCount(s, o) ==
    IF s.host = None THEN [s |-> s, raised |-> FALSE]
    ELSE LET wasOpen == IsOpen(s.log, s.host)
             l1 == Append(s.log, Call("quit", s.host, 0, wasOpen))
             r == ConfigureHost(l1, o)
         IN  IF ~wasOpen THEN [s |-> [s EXCEPT !.log = l1], raised |-> TRUE]
             ELSE IF r.raised THEN [s |-> [s EXCEPT !.log = r.log], raised |-> TRUE]
             ELSE [s |-> [s EXCEPT !.log = r.log, !.host = r.host], raised |-> FALSE]
\* Variant of the threshold branch that reconnects without quitting.
RecycleNoQuit(s, o) ==
    IF s.host = None THEN [s |-> [s EXCEPT !.num_emails = 0], raised |-> FALSE]
    ELSE LET r == ConfigureHost(s.log, o)
         IN  IF r.raised
             THEN [s |-> [s EXCEPT !.num_emails = 0, !.log = r.log], raised |-> TRUE]
             ELSE [s |-> [s EXCEPT !.num_emails = 0, !.log = r.log, !.host = r.host],
                   raised |-> FALSE]
\* The threshold branch of Connection.send (after the counter increment).
Recycle(s, o) ==
    IF s.host = None THEN [s |-> [s EXCEPT !.num_emails = 0], raised |-> FALSE]
    ELSE LET wasOpen == IsOpen(s.log, s.host)
             l1 == Append(s.log, Call("quit", s.host, 0, wasOpen))
             r == ConfigureHost(l1, o)
         IN  IF ~wasOpen
             THEN [s |-> [s EXCEPT !.num_emails = 0, !.log = l1], raised |-> TRUE]
             ELSE IF r.raised
             THEN [s |-> [s EXCEPT !.num_emails = 0, !.log = r.log], raised |-> TRUE]
             ELSE [s |-> [s EXCEPT !.num_emails = 0, !.log = r.log, !.host = r.host],
                   raised |-> FALSE]

\* Variant of send that notifies only when a handle transmitted.
DeliverNotifyOnlyIfSent(s, id, smOk, o) ==
    LET sent == s.host # None
        ok == smOk /\ IsOpen(s.log, s.host)
        s1 == IF sent THEN [s EXCEPT !.log = Append(@, Call("sendmail", s.host, id, ok))]
              ELSE s
    IN  IF sent /\ ~ok THEN [s |-> s1, result |-> "SMTPException"]
        ELSE LET s2 == [s1 EXCEPT !.outbox = IF sent THEN Append(@, id) ELSE @,
                                  !.num_emails = @ + 1]
             IN  IF s2.num_emails = mail.max_emails
                 THEN LET r == Recycle(s2, o)
                      IN  [s |-> r.s,
                           result |-> IF r.raised THEN "ReconnectError" ELSE "ok"]
                 ELSE [s |-> s2, result |-> "ok"]
\* Variant of send whose observer receives the newest message first.
DeliverNewestFirst(s, id, smOk, o) ==
    LET sent == s.host # None
        ok == smOk /\ IsOpen(s.log, s.host)
        s1 == IF sent THEN [s EXCEPT !.log = Append(@, Call("sendmail", s.host, id, ok))]
              ELSE s
    IN  IF sent /\ ~ok THEN [s |-> s1, result |-> "SMTPException"]
        ELSE LET s2 == [s1 EXCEPT !.outbox = <<id>> \o @,
                                  !.num_emails = @ + 1]
             IN  IF s2.num_emails = mail.max_emails
                 THEN LET r == Recycle(s2, o)
                      IN  [s |-> r.s,
                           result |-> IF r.raised THEN "ReconnectError" ELSE "ok"]
                 ELSE [s |-> s2, result |-> "ok"]
\* Connection.send from the sendmail call on, for message number id.
Deliver(s, id, smOk, o) ==
    LET sent == s.host # None
        ok == smOk /\ IsOpen(s.log, s.host)
        s1 == IF sent THEN [s EXCEPT !.log = Append(@, Call("sendmail", s.host, id, ok))]
              ELSE s
    IN  IF sent /\ ~ok THEN [s |-> s1, result |-> "SMTPException"]
        ELSE LET s2 == [s1 EXCEPT !.outbox = Append(@, id),
                                  !.num_emails = @ + 1]
             IN  IF s2.num_emails = mail.max_emails
                 THEN LET r == Recycle(s2, o)
                      IN  [s |-> r.s,
                           result |-> IF r.raised THEN "ReconnectError" ELSE "ok"]
                 ELSE [s |-> s2, result |-> "ok"]

\* Variant of the date stamp that overwrites a date already set.
StampDateAlways(m, now) == [m EXCEPT !.date = now]
\* "if message.date is None: message.date = time.time()"
StampDate(m, now) == IF m.date = None THEN [m EXCEPT !.date = now] ELSE m

\* The arguments of the sendmail call in Connection.send.  The recipient
\* list is built from the send_to set, so its order is not determined: it is
\* held as the set of its elements, each with the address it was made from.
NoArgs == [called |-> FALSE, from |-> <<>>, to |-> {}, mail_options |-> <<>>,
           rcpt_options |-> <<>>, data |-> [raised |-> "none"]]
SendmailArgs(m, envelope_from, now, bs) ==
    [called |-> TRUE,
     from |-> SanitizeAddress(IF Truthy(envelope_from) THEN envelope_from ELSE m.sender),
     to |-> {[raw |-> a, wire |-> SanitizeAddress(a)] : a \in SendTo(m)},
     mail_options |-> m.mail_options,
     rcpt_options |-> m.rcpt_options,
     data |-> AsBytes(m, now, bs)]

\* The boundary strings a flattening may draw for a multipart document.
Boundaries == {1, 2}

\* Connection.send(message, envelope_from): bs are the boundaries drawn when
\* the message is flattened, smOk is whether the server accepts the message,
\* o the outcome of a reconnect.  One history record is appended.
SendOpFrom(s, m, envelope_from, bs, smOk, o) ==
    LET id == Len(s.calls) + 1
        pre == Precheck(m)
        m1 == IF pre = "ok" THEN StampDate(m, Now(s)) ELSE m
        d == IF pre = "ok" THEN Deliver(s, id, smOk, o) ELSE [s |-> s, result |-> pre]
        rec == [msg |-> m1, result |-> d.result, phase0 |-> s.phase,
                host0 |-> s.host, host1 |-> d.s.host,
                n0 |-> s.num_emails, n1 |-> d.s.num_emails,
                log0 |-> Len(s.log), log1 |-> Len(d.s.log),
                out0 |-> Len(s.outbox), out1 |-> Len(d.s.outbox),
                date0 |-> m.date, envelope_from |-> envelope_from,
                args |-> IF pre = "ok" /\ s.host # None
                         THEN SendmailArgs(m1, envelope_from, Now(s), bs)
                         ELSE NoArgs]
    IN  [d.s EXCEPT !.calls = Append(@, rec)]

\* Connection.send(message), envelope_from left at None.  The messages sent
\* this way are single-part, so no boundary is drawn.
SendOp(s, m, smOk, o) == SendOpFrom(s, m, NoneAddr, <<NoBoundary, NoBoundary>>, smOk, o)

\* The messages the model sends: Message(...) under the configured default
\* sender; one of them is constructed with a date.
SetDate == 9
SendInputs ==
    {MessageInit(a.subject, a.recipients, a.sender, a.cc, a.bcc, NoneAddr, a.date,
                 mail.default_sender) :
        a \in {[subject |-> <<"a">>, recipients |-> <<A1>>, sender |-> NoneAddr,
                cc |-> <<>>, bcc |-> <<>>, date |-> None],
               [subject |-> <<"a">>, recipients |-> <<>>, sender |-> A1,
                cc |-> <<>>, bcc |-> <<>>, date |-> None],
               [subject |-> <<>>, recipients |-> <<>>, sender |-> A3,
                cc |-> <<A1>>, bcc |-> <<A2, A1>>, date |-> SetDate],
               [subject |-> <<"a", LF>>, recipients |-> <<A1>>, sender |-> A1,
                cc |-> <<>>, bcc |-> <<>>, date |-> None],
               [subject |-> <<"a", CR, LF>>, recipients |-> <<>>, sender |-> A1,
                cc |-> <<>>, bcc |-> <<>>, date |-> None]}}

(***************************************************************************)
(* Spec: one Connection obtained from Mail.connect(), used as a scope      *)
(* (with ... as conn), or Mail.send on a single message.                   *)
(***************************************************************************)
Init ==
    /\ testing \in BOOLEAN
    /\ \E config \in Configs : mail = InitMail(config, testing)
    /\ failSilently = "unset"
    /\ phase = "unopened"
    /\ host = None
    /\ num_emails = 0
    /\ log = <<>>
    /\ outbox = <<>>
    /\ calls = <<>>
    /\ exitInfo = NoExit
    /\ msg = MessageInit(<<>>, <<>>, NoneAddr, <<>>, <<>>, NoneAddr, None, NoneAddr)
    /\ verdict = "none"
    /\ lastAdd = NoAdd
    /\ SerIdle

\* The outcomes that matter in the current state: configure_host runs on
\* entry unless suppressed, and in send when a handle is held and this send
\* reaches the threshold; the server's verdict matters when a handle is held.
EnterOutcomes == IF mail.suppress THEN {"ok"} ELSE HostOutcomes
ReopenOutcomes(s) ==
    IF s.host # None /\ s.num_emails + 1 = mail.max_emails THEN HostOutcomes ELSE {"ok"}
ServerVerdicts(s) == IF s.host # None THEN BOOLEAN ELSE {TRUE}

Enter ==
    /\ phase = "unopened"
    /\ \E o \in EnterOutcomes : Apply(EnterOp(Cur, o))
    /\ UNCHANGED <<mail, testing, failSilently, msgVars>>

Send ==
    /\ phase \in {"open", "closed"}
    /\ Len(calls) < MaxSends
    /\ \E m \in SendInputs, smOk \in ServerVerdicts(Cur), o \in ReopenOutcomes(Cur) :
          Apply(SendOp(Cur, m, smOk, o))
    /\ UNCHANGED <<mail, testing, failSilently, msgVars>>

Exit ==
    /\ phase = "open"
    /\ Apply(ExitOp(Cur))
    /\ UNCHANGED <<mail, testing, failSilently, msgVars>>

\* _MailMixin.send: with self.connect() as connection: message.send(connection)
MailSend ==
    /\ phase = "unopened"
    /\ Len(calls) < MaxSends
    /\ \E m \in SendInputs, o1 \in EnterOutcomes :
          LET s1 == EnterOp(Cur, o1)
          IN  IF s1.phase = "failed" THEN Apply(s1)
              ELSE \E smOk \in ServerVerdicts(s1), o2 \in ReopenOutcomes(s1) :
                      Apply([ExitOp(SendOp(s1, m, smOk, o2))
                                EXCEPT !.exitInfo.scope = "Mail.send"])
    /\ UNCHANGED <<mail, testing, failSilently, msgVars>>

Next == Enter \/ Send \/ Exit \/ MailSend

Spec == Init /\ [][Next]_vars

(***************************************************************************)
(* SpecSer: a constructed message that is attached to and serialized while *)
(* the clock runs.                                                         *)
(***************************************************************************)
MaxClock == 3
MaxAttachments == 2

\* Message(body=..., html=..., alts=..., date=...): with and without a body,
\* with no alternative, html only, another alternative only, both, and an
\* "html" alternative that the html argument (None) removes again.
SerContents ==
    {[html |-> NoText, alts |-> <<>>],
     [html |-> Str(<<"h">>), alts |-> <<>>],
     [html |-> NoText, alts |-> <<[k |-> "calendar", v |-> <<"c">>]>>],
     [html |-> Str(<<"h">>), alts |-> <<[k |-> "calendar", v |-> <<"c">>]>>],
     [html |-> NoText, alts |-> <<[k |-> "html", v |-> <<"x">>]>>]}

SerInputs ==
    {MessageNew(<<"a">>, <<A1>>, body, c.html, c.alts, A3, <<>>, <<>>, <<>>, NoneAddr,
                date, <<>>, <<>>, <<>>, NoneAddr, 1) :
        body \in {NoText, Str(<<"a">>)}, c \in SerContents, date \in {None, SetDate}}

\* msg.attach(filename=..., data=...): with and without data.
AttachInputs ==
    {[filename |-> NoText, data |-> NoData],
     [filename |-> Str(<<"a", ".", "t", "x", "t">>), data |-> NoData],
     [filename |-> NoText, data |-> Bytes(<<255>>)],
     [filename |-> NoText, data |-> Bytes(<<65, 255>>)],
     [filename |-> Str(<<"a", ".", "t", "x", "t">>), data |-> Bytes(<<0, 65, 255>>)]}

InitSer ==
    /\ ConnIdle
    /\ msg \in SerInputs
    /\ verdict = "none"
    /\ lastAdd = NoAdd
    /\ SerIdle

Tick ==
    /\ clock < MaxClock
    /\ clock' = clock + 1
    /\ UNCHANGED <<msg, verdict, lastAdd, ser, lastAttach, given>>
    /\ UNCHANGED connVars

\* str(msg) / msg.as_bytes() at the current time; ser keeps the last two.
Serialize ==
    /\ \E bs \in Boundaries \X Boundaries :
          LET e == [out |-> AsBytes(msg, clock, bs), at |-> clock]
          IN  ser' = IF Len(ser) = 2 THEN <<ser[2], e>> ELSE Append(ser, e)
    /\ UNCHANGED <<msg, verdict, lastAdd, clock, lastAttach, given>>
    /\ UNCHANGED connVars

\* msg.attach(...); a change of the message starts a new serialization history.
Attach ==
    /\ Len(msg.attachments) < MaxAttachments
    /\ \E a \in AttachInputs :
          LET r == AttachOp(msg, a.filename, NoText, a.data, NoText)
          IN  /\ msg' = r.m
              /\ lastAttach' = [done |-> TRUE, raised |-> r.raised,
                                before |-> msg.attachments, data |-> a.data]
              /\ ser' = IF r.raised = "" THEN <<>> ELSE ser
    /\ UNCHANGED <<verdict, lastAdd, clock, given>>
    /\ UNCHANGED connVars

NextSer == Tick \/ Serialize \/ Attach

SpecSer == InitSer /\ [][NextSer]_vars

(***************************************************************************)
(* SpecFiles: one message with one attachment, serialized under either     *)
(* setting of MAIL_ASCII_ATTACHMENTS.                                      *)
(***************************************************************************)
MaxNameLen == 4

\* The characters of a file name: a letter, a blank, a letter that
\* decomposes to ASCII plus a combining mark, a symbol with no ASCII part.
NameChars == {"a", SP, UUml, Arrow}

\* Attachment(filename, data=b"\xff", disposition=..., headers=...): without
\* and with a file name, default and given disposition, without and with an
\* extra header.
FileInputs ==
    {AttachmentNew(fn, NoText, Bytes(<<255>>), d, h).att :
        fn \in {NoText} \cup {Str(n) : n \in SeqsUpTo(NameChars, MaxNameLen)},
        d \in {NoText, Str(<<"i">>)},
        h \in {<<>>, <<[k |-> "X-B", v |-> <<"a">>]>>}}

InitFiles ==
    /\ testing = FALSE
    /\ \E b \in BOOLEAN : mail = InitMail("MAIL_ASCII_ATTACHMENTS" :> b, testing)
    /\ failSilently = "unset"
    /\ phase = "unopened"
    /\ host = None
    /\ num_emails = 0
    /\ log = <<>>
    /\ outbox = <<>>
    /\ calls = <<>>
    /\ exitInfo = NoExit
    /\ \E f \in FileInputs :
          msg = MessageNew(<<"a">>, <<A1>>, Str(<<"a">>), NoText, <<>>, A3, <<>>, <<>>,
                           <<f>>, NoneAddr, SetDate, <<>>, <<>>, <<>>, NoneAddr, 1)
    /\ verdict = "none"
    /\ lastAdd = NoAdd
    /\ SerIdle

NextFiles == Serialize

SpecFiles == InitFiles /\ [][NextFiles]_vars

(***************************************************************************)
(* SpecAlts: one message constructed from html and alts arguments, then    *)
(* serialized as time passes.                                              *)
(***************************************************************************)
\* The alts argument: absent, one alternative, or two in either order.
AltsInputs ==
    {<<>>,
     <<[k |-> "html", v |-> <<"x">>]>>,
     <<[k |-> "calendar", v |-> <<"c">>]>>,
     <<[k |-> "html", v |-> <<"x">>], [k |-> "calendar", v |-> <<"c">>]>>,
     <<[k |-> "calendar", v |-> <<"c">>], [k |-> "html", v |-> <<"x">>]>>}

\* Message(subject="a", recipients=["a"], body=..., html=..., alts=...,
\* sender="n <a>", date=...)
InitAlts ==
    /\ ConnIdle
    /\ \E body \in {NoText, Str(<<"a">>)}, html \in {NoText, Str(<<"h">>)},
          alts \in AltsInputs, date \in {None, SetDate} :
          /\ msg = MessageNew(<<"a">>, <<A1>>, body, html, alts, A3, <<>>, <<>>, <<>>,
                              NoneAddr, date, <<>>, <<>>, <<>>, NoneAddr, 1)
          /\ given = [done |-> TRUE, html |-> html, alts |-> alts]
    /\ verdict = "none"
    /\ lastAdd = NoAdd
    /\ clock = 1
    /\ ser = <<>>
    /\ lastAttach = NoAttach

NextAlts == Tick \/ Serialize

SpecAlts == InitAlts /\ [][NextAlts]_vars

(***************************************************************************)
(* SpecWire: one message with content, options and an optional explicit    *)
(* envelope sender, sent inside a "with mail.connect() as conn" scope.     *)
(***************************************************************************)
MaxWireSends == 1

\* app.config: sending suppressed or not, MAIL_FAIL_SILENTLY unset or set.
WireConfigs ==
    {s @@ f :
        s \in {Unset, "MAIL_SUPPRESS_SEND" :> TRUE},
        f \in {Unset} \cup {"MAIL_FAIL_SILENTLY" :> b : b \in {"True", "False"}}}

File1 == AttachmentInit(Str(<<"a", ".", "t", "x", "t">>), NoText, Bytes(<<0, 65, 255>>),
                        NoText).att

\* Message(...): with and without a body; plain only, or html and a file;
\* recipients only, recipients with cc and bcc, bcc only, cc and bcc with a
\* line break in an address; with and without a date; with and without reply-to, extra headers and ESMTP options.
WireInputs ==
    {MessageNew(<<"a">>, t.recipients, body, c.html, <<>>, A3, t.cc, t.bcc, c.files,
                x.reply_to, date, x.extra_headers, x.mail_options, x.rcpt_options,
                NoneAddr, 1) :
        body \in {NoText, Str(<<"a">>)},
        c \in {[html |-> NoText, files |-> <<>>],
               [html |-> Str(<<"h">>), files |-> <<File1>>]},
        t \in {[recipients |-> <<A1>>, cc |-> <<>>, bcc |-> <<>>],
               [recipients |-> <<A1>>, cc |-> <<A3, A1>>, bcc |-> <<A2, A1>>],
               [recipients |-> <<>>, cc |-> <<>>, bcc |-> <<A2>>],
               [recipients |-> <<A1>>, cc |-> <<BadCc>>, bcc |-> <<BadCc, A2>>]},
        date \in {None, SetDate},
        x \in {[reply_to |-> NoneAddr, extra_headers |-> <<>>, mail_options |-> <<>>,
                rcpt_options |-> <<>>],
               [reply_to |-> A1, extra_headers |-> <<[k |-> "X-A", v |-> <<"a">>]>>,
                mail_options |-> <<"BODY=8BITMIME">>,
                rcpt_options |-> <<"NOTIFY=SUCCESS">>]}}

InitWire ==
    /\ testing = FALSE
    /\ \E config \in WireConfigs :
          /\ mail = InitMail(config, testing)
          /\ failSilently = Get(config, "MAIL_FAIL_SILENTLY", "unset")
    /\ phase = "unopened"
    /\ host = None
    /\ num_emails = 0
    /\ log = <<>>
    /\ outbox = <<>>
    /\ calls = <<>>
    /\ exitInfo = NoExit
    /\ msg \in WireInputs
    /\ verdict = "none"
    /\ lastAdd = NoAdd
    /\ SerIdle

\* The boundaries a flattening of m draws: none for a single part.
BoundaryDraws(m) ==
    IF m.alts = <<>> /\ m.attachments = <<>> THEN {<<NoBoundary, NoBoundary>>}
    ELSE Boundaries \X Boundaries

\* conn.send(msg) or conn.send(msg, envelope_from) in the scope body; msg is
\* the message object, so it keeps the date the send stamps.
SendMsg ==
    /\ phase = "open"
    /\ Len(calls) < MaxWireSends
    /\ \E envelope_from \in {NoneAddr, A2}, bs \in BoundaryDraws(msg),
          smOk \in ServerVerdicts(Cur), o \in ReopenOutcomes(Cur) :
          LET s1 == SendOpFrom(Cur, msg, envelope_from, bs, smOk, o)
          IN  /\ Apply(s1)
              /\ msg' = s1.calls[Len(s1.calls)].msg
    /\ ser' = <<>>
    /\ UNCHANGED <<mail, testing, failSilently, verdict, lastAdd, clock, lastAttach, given>>

NextWire == Enter \/ SendMsg \/ Exit

SpecWire == InitWire /\ [][NextWire]_vars

(***************************************************************************)
(* Claims about the header-safety check (SpecHeaders).                     *)
(***************************************************************************)
\* What the text calls a properly folded subject, stated on character
\* positions: every CR is followed by LF and every LF preceded by CR, each
\* CRLF is followed by a space or tab, and each physical line holds a
\* character that is not whitespace.
IsFold(s, i) == i < Len(s) /\ s[i] = "\r" /\ s[i + 1] = "\n"
NoBareBreak(s) ==
    \A i \in DOMAIN s :
        /\ s[i] = "\r" => IsFold(s, i)
        /\ s[i] = "\n" => (i > 1 /\ s[i - 1] = "\r")
LineStarts(s) == {1} \cup {i + 2 : i \in {j \in DOMAIN s : IsFold(s, j)}}
LineHasText(s, p) ==
    \E q \in p..Len(s) :
        /\ s[q] \notin {" ", "\t", "\r", "\n"}
        /\ \A k \in p..(q - 1) : s[k] \in {" ", "\t"}
ProperlyFolded(s) ==
    /\ NoBareBreak(s)
    /\ \A i \in DOMAIN s : IsFold(s, i) => (i + 2 <= Len(s) /\ s[i + 2] \in {" ", "\t"})
    /\ \A p \in LineStarts(s) : LineHasText(s, p)
ContainsBreak(s) == \E i \in DOMAIN s : s[i] \in {"\r", "\n"}

\* An address header of the message, as the text the check reads.
AddrText(x) == IF x.kind = "tuple" THEN x.name \o <<" ", "<">> \o x.addr \o <<">">>
               ELSE x.addr
AddressBreak(m) ==
    \/ ContainsBreak(AddrText(m.sender))
    \/ ContainsBreak(AddrText(m.reply_to))
    \/ \E i \in DOMAIN m.recipients : ContainsBreak(AddrText(m.recipients[i]))

C4_AddressBreakIsBad ==
    (verdict # "none" /\ AddressBreak(msg)) => verdict = "True"

(***************************************************************************)
(* Claims about the envelope recipient set (SpecMsg).                      *)
(***************************************************************************)
\* The number of distinct values in a list: positions with no earlier equal.
DistinctCount(seq) ==
    Cardinality({i \in DOMAIN seq : \A j \in 1..(i - 1) : seq[j] # seq[i]})

\* C5: send_to holds exactly the addresses of recipients, cc and bcc, its
\* size is the number of distinct addresses across the three lists, and an
\* add_recipient of an address already in one of the lists left the size as
\* it was.
C5_SendToIsUnion ==
    LET all == msg.recipients \o msg.cc \o msg.bcc
    IN  /\ \A x \in SendTo(msg) : \E i \in DOMAIN all : all[i] = x
        /\ \A i \in DOMAIN all : all[i] \in SendTo(msg)
        /\ Cardinality(SendTo(msg)) = DistinctCount(all)
        /\ (lastAdd.done /\ lastAdd.present) =>
              Cardinality(SendTo(msg)) = lastAdd.before
        /\ (lastAdd.done /\ ~lastAdd.present) =>
              Cardinality(SendTo(msg)) = lastAdd.before + 1

\* C5 witness: an address already in cc was added to recipients, with a
\* duplicate across the lists.
C5_Witness ==
    /\ lastAdd.done
    /\ lastAdd.present
    /\ msg.cc # <<>>
    /\ msg.bcc # <<>>
    /\ msg.recipients[Len(msg.recipients)] \in ToSet(msg.cc)
    /\ Cardinality(SendTo(msg)) < Len(msg.recipients) + Len(msg.cc) + Len(msg.bcc)

(***************************************************************************)
(* Claims about Connection (Spec).  calls[i] is the i-th invocation of     *)
(* send: its message, how it ended, and the sizes of the transport log and *)
(* of the outbox, the counter and the handle before (0) and after (1).     *)
(***************************************************************************)
EnvelopeEmpty(m) == m.recipients = <<>> /\ m.cc = <<>> /\ m.bcc = <<>>
SenderUnresolved(m) == m.sender.kind = "none"
Transmitted(i) == \E j \in DOMAIN log : log[j].op = "sendmail" /\ log[j].msg = i
Announced(i) == \E j \in DOMAIN outbox : outbox[j] = i
NothingDone(c) ==
    /\ c.log1 = c.log0
    /\ c.out1 = c.out0
    /\ c.n1 = c.n0
    /\ c.host1 = c.host0

\* C1: a send of a message with no envelope recipient, or with no resolved
\* sender, raises AssertionError and does nothing: no transport call, no
\* notification, counter and handle unchanged.
C1_PreconditionAborts ==
    \A i \in DOMAIN calls :
        (EnvelopeEmpty(calls[i].msg) \/ SenderUnresolved(calls[i].msg)) =>
            /\ calls[i].result = "AssertionError"
            /\ NothingDone(calls[i])
            /\ ~Transmitted(i)
            /\ ~Announced(i)

\* C1 witness: on a connection holding an open handle, one send without
\* recipients and one without a resolved sender were both rejected.
C1_Witness ==
    /\ \E i \in DOMAIN calls :
          /\ EnvelopeEmpty(calls[i].msg) /\ ~SenderUnresolved(calls[i].msg)
          /\ calls[i].host0 # None /\ calls[i].result = "AssertionError"
    /\ \E i \in DOMAIN calls :
          /\ SenderUnresolved(calls[i].msg) /\ ~EnvelopeEmpty(calls[i].msg)
          /\ calls[i].host0 # None /\ calls[i].result = "AssertionError"

\* C2 (as stated): every send of a message whose has_bad_headers() is true
\* raises BadHeaderError and sends nothing.
C2_Original ==
    \A i \in DOMAIN calls :
        HasBadHeaders(calls[i].msg) = "True" =>
            /\ calls[i].result = "BadHeaderError"
            /\ NothingDone(calls[i])

\* C2 (amended): a send of a message whose has_bad_headers() is true sends
\* nothing and leaves the message's headers as they were; it raises
\* BadHeaderError when the message has an envelope recipient and a resolved
\* sender, and AssertionError (the earlier check) otherwise.
C2_BadHeaderRejected ==
    \A i \in DOMAIN calls :
        HasBadHeaders(calls[i].msg) = "True" =>
            /\ NothingDone(calls[i])
            /\ ~Transmitted(i)
            /\ ~Announced(i)
            /\ calls[i].msg \in SendInputs
            /\ IF EnvelopeEmpty(calls[i].msg) \/ SenderUnresolved(calls[i].msg)
               THEN calls[i].result = "AssertionError"
               ELSE calls[i].result = "BadHeaderError"

\* C2 witness: a message with a bad subject, a recipient and a sender was
\* refused with BadHeaderError on a connection holding an open handle.
C2_Witness ==
    \E i \in DOMAIN calls :
        /\ HasBadHeaders(calls[i].msg) = "True"
        /\ ~EnvelopeEmpty(calls[i].msg)
        /\ calls[i].host0 # None
        /\ calls[i].result = "BadHeaderError"

\* The transport calls made during the i-th send.
Segment(i) == SubSeq(log, calls[i].log0 + 1, calls[i].log1)
Delivered(i) == calls[i].result \in {"ok", "ReconnectError"}
Trips(i) == Delivered(i) /\ calls[i].n0 + 1 = mail.max_emails

\* C6: the send that brings the counter to max_emails leaves it at zero;
\* without a handle it makes no transport call; with a handle it quits that
\* handle and only then connects a handle never used before, which becomes
\* the connection's handle when the reconnect succeeds.
C6_ThresholdRecycle ==
    \A i \in DOMAIN calls :
        Trips(i) =>
            /\ calls[i].n1 = 0
            /\ calls[i].host0 = None => (calls[i].log1 = calls[i].log0 /\ calls[i].host1 = None)
            /\ calls[i].host0 # None =>
                  LET seg == Segment(i)
                  IN  /\ Len(seg) >= 3
                      /\ seg[1] = Call("sendmail", calls[i].host0, i, TRUE)
                      /\ seg[2] = Call("quit", calls[i].host0, 0, TRUE)
                      /\ seg[3].op = "connect"
                      /\ \A j \in 1..(calls[i].log0 + 2) : log[j].h # seg[3].h
                      /\ \A j \in 4..Len(seg) :
                            seg[j].h = seg[3].h /\ seg[j].op \in {"starttls", "login"}
                      /\ calls[i].result = "ok" =>
                            /\ calls[i].host1 = seg[3].h
                            /\ \A j \in 3..Len(seg) : seg[j].ok
        
\* C6 witness: with max_emails = 2, the second send on an open handle
\* recycled it.
C6_Witness ==
    \E i \in DOMAIN calls :
        /\ Trips(i)
        /\ mail.max_emails = 2
        /\ calls[i].host0 # None
        /\ calls[i].result = "ok"
        /\ calls[i].host1 # calls[i].host0

\* C7: when __exit__ runs on a connection whose handle is open, it calls
\* quit on that handle, and that is the only quit the handle ever receives,
\* whether or not the last send raised, under "with" and under Mail.send.
QuitCount(h) == Cardinality({j \in DOMAIN log : log[j].op = "quit" /\ log[j].h = h})
C7_ExitQuitsOnce ==
    (exitInfo.done /\ exitInfo.open) =>
        /\ Len(log) > exitInfo.log0
        /\ log[exitInfo.log0 + 1] = Call("quit", exitInfo.host, 0, TRUE)
        /\ QuitCount(exitInfo.host) = 1

\* C7 witness: Mail.send's scope ended by a send that raised, with the
\* handle open.
C7_Witness ==
    /\ exitInfo.done
    /\ exitInfo.open
    /\ exitInfo.afterError
    /\ exitInfo.scope = "Mail.send"

\* C8 (as stated): every invocation of send fires the notification exactly
\* once, so the observer holds as many messages as sends were invoked.
C8_Original ==
    /\ Len(outbox) = Len(calls)
    /\ \A i \in DOMAIN calls : Cardinality({j \in DOMAIN outbox : outbox[j] = i}) = 1

\* C8 (amended): the notification fires exactly once for every send that
\* passes the checks and whose sendmail (if any) does not raise, also
\* without a handle and also when the following reconnect fails, and never
\* for a send that the checks or sendmail aborted; the observer holds
\* exactly those messages.
C8_NotifiedOncePerDelivery ==
    /\ \A i \in DOMAIN calls :
          Cardinality({j \in DOMAIN outbox : outbox[j] = i}) =
              (IF calls[i].result \in {"ok", "ReconnectError"} THEN 1 ELSE 0)
    /\ \A j \in DOMAIN outbox : outbox[j] \in DOMAIN calls
    /\ Len(outbox) =
          Cardinality({i \in DOMAIN calls : calls[i].result \in {"ok", "ReconnectError"}})

\* C8 witness: a scope without a handle in which two sends succeeded and one
\* was aborted.
C8_Witness ==
    /\ Len(calls) = 3
    /\ Len(outbox) = 2
    /\ host = None
    /\ log = <<>>
    /\ mail.suppress

\* C9: messages reach the transport and the observer in the order of the
\* send invocations, each during its own invocation, none twice.
SendmailAt == {j \in DOMAIN log : log[j].op = "sendmail"}
C9_OrderPreserved ==
    /\ \A j, k \in DOMAIN outbox : j < k => outbox[j] < outbox[k]
    /\ \A j, k \in SendmailAt : j < k => log[j].msg < log[k].msg
    /\ \A j \in SendmailAt :
          /\ log[j].msg \in DOMAIN calls
          /\ calls[log[j].msg].log0 < j /\ j <= calls[log[j].msg].log1
    /\ \A j \in DOMAIN outbox :
          calls[outbox[j]].out0 < j /\ j <= calls[outbox[j]].out1

\* C9 witness: two messages transmitted in one scope with a recycle between
\* them.
C9_Witness ==
    \E j, k \in SendmailAt :
        /\ j < k
        /\ log[j].ok /\ log[k].ok
        /\ \E q \in (j + 1)..(k - 1) : log[q].op = "quit"
        /\ Len(outbox) >= 2

\* C10: when the application is in test mode or sets the suppress flag, the
\* connection never holds a handle and no transport call is made.
C10_SuppressedNoTransport ==
    (testing \/ mail.suppress) => (host = None /\ log = <<>>)

(***************************************************************************)
(* Claims about the date stamp (Spec).                                     *)
(***************************************************************************)
\* C11: a send that succeeds leaves the message with a date; a date that was
\* unset is stamped with the time of the call, and that stamped date is the
\* one in the bytes handed to the transport; a date that was set before the
\* send is unchanged by it.  Holds with and without a transport handle.
C11_DateStamped ==
    \A i \in DOMAIN calls :
        LET c == calls[i]
        IN  /\ c.result = "ok" => c.msg.date # 0
            /\ (c.result = "ok" /\ c.date0 = 0) => c.msg.date = i
            /\ c.date0 # 0 => c.msg.date = c.date0
            /\ c.args.called => c.args.data.headers.Date = c.msg.date \div TicksPerSecond

C11_Witness ==
    /\ \E i \in DOMAIN calls :
          calls[i].result = "ok" /\ calls[i].date0 = 0 /\ calls[i].args.called
    /\ \E i \in DOMAIN calls :
          calls[i].result = "ok" /\ calls[i].date0 # 0 /\ calls[i].host0 # 0

(***************************************************************************)
(* Claims about serialization and attachments (SpecSer).  Every entry of   *)
(* ser is a serialization of msg as it is now.                             *)
(***************************************************************************)
\* C12: two serializations of a message that did not change in between are
\* equal, Message-ID and Date included, whether or not the date is set.
C12_SerializationIdempotent ==
    \A i, j \in DOMAIN ser :
        /\ ser[i].out.raised = ser[j].out.raised
        /\ ser[i].out.headers.MessageID = ser[j].out.headers.MessageID
        /\ ser[i].out.headers.Date = ser[j].out.headers.Date
        /\ ser[i].out = ser[j].out

\* Base64 decoding: the symbols' six-bit values, regrouped into bytes.
B64Values(chars) ==
    LET syms == SelectSeq(chars, LAMBDA c : c \notin {"\n", "="})
    IN  [i \in DOMAIN syms |-> (CHOOSE n \in 1..64 : B64Alphabet[n] = syms[i]) - 1]
B64Decode(chars) ==
    LET v == B64Values(chars)
    IN  [k \in 1..((6 * Len(v)) \div 8) |->
            LET o == 8 * (k - 1)
                i == (o \div 6) + 1
            IN  ((v[i] * 64 + v[i + 1]) \div (2 ^ (4 - (o % 6)))) % 256]

BodyText(m) == IF m.body.kind = "none" THEN <<>> ELSE m.body.text
IsPlainPart(part, m) ==
    part.ctype = <<"text", "plain">> /\ part.parts = <<>> /\ part.payload = BodyText(m)
IsFilePart(part, a) ==
    /\ part.cte = "base64"
    /\ part.parts = <<>>
    /\ part.ctype = a.content_type
    /\ B64Decode(part.payload) = a.data.bytes

\* C13: without alternative content the encoding is one text/plain part
\* holding the body when there is no attachment, and otherwise a
\* multipart/mixed of the body part followed by one base64 part per
\* attachment, in list order, each decoding to the attachment's bytes.
C13_PlainStructure ==
    \A i \in DOMAIN ser :
        LET root == ser[i].out.root
            n == Len(msg.attachments)
        IN  msg.alts = <<>> =>
                IF n = 0 THEN IsPlainPart(root, msg)
                ELSE /\ root.ctype = <<"multipart", "mixed">>
                     /\ Len(root.parts) = 1 + n
                     /\ IsPlainPart(root.parts[1], msg)
                     /\ \A k \in 1..n : IsFilePart(root.parts[k + 1], msg.attachments[k])

C13_Witness ==
    /\ ser # <<>>
    /\ msg.alts = <<>>
    /\ msg.body.kind = "str"
    /\ Len(msg.attachments) = 2
    /\ msg.attachments[1] # msg.attachments[2]
    /\ \E k \in 1..2 : Len(msg.attachments[k].data.bytes) % 3 # 0

\* C14: with any alternative content the encoding is a multipart container
\* whose first part is a multipart/alternative of the plain part and then
\* every alternative in insertion order, followed by one part per
\* attachment in list order.
C14_AlternativeStructure ==
    \A i \in DOMAIN ser :
        LET root == ser[i].out.root
            n == Len(msg.attachments)
            a == Len(msg.alts)
        IN  msg.alts # <<>> =>
                /\ root.ctype[1] = "multipart"
                /\ Len(root.parts) = 1 + n
                /\ root.parts[1].ctype = <<"multipart", "alternative">>
                /\ Len(root.parts[1].parts) = 1 + a
                /\ IsPlainPart(root.parts[1].parts[1], msg)
                /\ \A k \in 1..a :
                      /\ root.parts[1].parts[k + 1].ctype = <<"text", msg.alts[k].k>>
                      /\ root.parts[1].parts[k + 1].payload = msg.alts[k].v
                /\ \A k \in 1..n : IsFilePart(root.parts[k + 1], msg.attachments[k])

C14_Witness ==
    /\ ser # <<>>
    /\ Len(msg.alts) = 2
    /\ msg.alts[2].k = "html"
    /\ Len(msg.attachments) = 2

\* C20: an attach call without data raises and leaves the attachment list
\* as it was; every attachment the message holds has data.
C20_AttachNeedsData ==
    /\ (lastAttach.done /\ lastAttach.data.kind = "none") =>
           (lastAttach.raised # "" /\ msg.attachments = lastAttach.before)
    /\ \A k \in DOMAIN msg.attachments : msg.attachments[k].data.kind # "none"

C20_Witness ==
    /\ lastAttach.done
    /\ lastAttach.data.kind = "none"
    /\ Len(msg.attachments) = 1

(***************************************************************************)
(* Claims about what a send hands to the transport (SpecWire).             *)
(***************************************************************************)
\* The text each address of the model is expected to have on the wire.
WireText(x) ==
    IF x.kind = "str" /\ x.addr \in {<<"a">>, <<"b">>} THEN x.addr
    ELSE IF x.kind = "tuple" /\ x.addr = <<"b", "\n">>
    THEN <<"=", "?", "u", "t", "f", "-", "8", "?", "q", "?", "n", "?", "=", " ", "<", "b", "\n", ">">>
    ELSE <<"=", "?", "u", "t", "f", "-", "8", "?", "q", "?", "n", "?", "=", " ", "<", "a", ">">>
AllRecipients(m) == ToSet(m.recipients) \cup ToSet(m.cc) \cup ToSet(m.bcc)
BccOnly(m) == ToSet(m.bcc) \ (ToSet(m.recipients) \cup ToSet(m.cc))

\* C15: an address that is only in bcc is among the envelope recipients
\* handed to sendmail and in no header of the serialized message; the To
\* header holds the recipients and nothing else, the Cc header the cc list.
C15_BccEnvelopeOnly ==
    \A i \in DOMAIN calls :
        LET c == calls[i]
            m == c.msg
            h == c.args.data.headers
        IN  c.args.called =>
                /\ \A a \in BccOnly(m) :
                      /\ \E t \in c.args.to : t.raw = a /\ t.wire = WireText(a)
                      /\ WireText(a) \notin h.To
                      /\ WireText(a) \notin h.Cc.value
                      /\ WireText(a) # h.From
                /\ \A k \in DOMAIN h.extra : h.extra[k].k # "Bcc"
                /\ h.To = {WireText(a) : a \in ToSet(m.recipients)}
                /\ h.Cc.present = (m.cc # <<>>)
                /\ h.Cc.value = {WireText(a) : a \in ToSet(m.cc)}

C15_Witness ==
    \E i \in DOMAIN calls :
        /\ calls[i].args.called
        /\ BccOnly(calls[i].msg) # {}
        /\ calls[i].msg.cc # <<>>
        /\ calls[i].msg.recipients # <<>>

\* C16: with a handle, a successful send makes exactly one sendmail call,
\* with the sanitized envelope sender (envelope_from, else the sender), the
\* sanitized distinct envelope recipients, the message's option lists, and
\* bytes equal to every serialization of the message made after the send.
C16_SendmailArguments ==
    \A i \in DOMAIN calls :
        LET c == calls[i]
            m == c.msg
        IN  (c.result = "ok" /\ c.host0 # 0) =>
                /\ Cardinality({j \in (c.log0 + 1)..c.log1 : log[j].op = "sendmail"}) = 1
                /\ c.args.called
                /\ c.args.from = WireText(IF c.envelope_from.kind = "none" THEN m.sender
                                          ELSE c.envelope_from)
                /\ c.args.to = {[raw |-> a, wire |-> WireText(a)] : a \in AllRecipients(m)}
                /\ c.args.mail_options = m.mail_options
                /\ c.args.rcpt_options = m.rcpt_options
                /\ \A bs \in BoundaryDraws(m) : c.args.data = AsBytes(m, i + 1, bs)

\* C17 as stated: a failed connect on entry propagates unless
\* MAIL_FAIL_SILENTLY is set, and is then swallowed: the scope goes on
\* without a handle.
EntryFailed == log # <<>> /\ log[1].op = "connect" /\ ~log[1].ok
NoContent(m) == m.body.kind = "none" /\ ~\E k \in DOMAIN m.alts : m.alts[k].k = "html"
C19_EmptyContentRejected ==
    \A i \in DOMAIN calls :
        LET c == calls[i]
        IN  NoContent(c.msg) =>
                /\ c.result \notin {"ok", "ReconnectError"}
                /\ c.log1 = c.log0
                /\ c.out1 = c.out0
                /\ (c.args.called /\ c.msg.attachments = <<>>) =>
                       /\ c.args.data.root.ctype = <<"text", "plain">>
                       /\ c.args.data.root.payload = <<>>

(***************************************************************************)
(* Claims about a failing send inside a batch (Spec).                      *)
(***************************************************************************)
\* C18: a send that raises has not transmitted its message, not announced
\* it and not counted it, and has not retried; what earlier sends of the
\* scope transmitted and announced stays transmitted and announced.
C18_FailedSendUnsent ==
    \A i \in DOMAIN calls :
        LET c == calls[i]
            sent == {j \in (c.log0 + 1)..c.log1 : log[j].op = "sendmail"}
        IN  c.result # "ok" =>
                /\ \A j \in sent : ~log[j].ok
                /\ Cardinality(sent) <= 1
                /\ c.out1 = c.out0
                /\ c.n1 = c.n0
                /\ \A k \in 1..(i - 1) :
                      calls[k].result = "ok" =>
                          /\ Announced(k)
                          /\ calls[k].host0 # 0 => Transmitted(k)

(***************************************************************************)
(* Claims about the counter and the handles of a Connection (Spec).        *)
(***************************************************************************)
ScopeCalls == {i \in DOMAIN calls : calls[i].phase0 = "open"}
SuccessCount == Cardinality({i \in ScopeCalls : calls[i].result = "ok"})
QuitsInScope == Cardinality({j \in DOMAIN log : log[j].op = "quit"})

StartsWith(t, p) == Len(t) >= Len(p) /\ SubSeq(t, 1, Len(p)) = p
FilenameParam == <<"f", "i", "l", "e", "n", "a", "m", "e">>
\* The headers of the part written for the k-th attachment.
FileHeaders(root, k) == root.parts[k + 1].headers

\* C21 as stated: every attachment part, also that of an attachment without
\* a file name, has a Content-Disposition header with the disposition and
\* the filename parameter, followed by the attachment's own headers.
C21_Original ==
    \A i \in DOMAIN ser : \A k \in DOMAIN msg.attachments :
        LET a == msg.attachments[k]
            h == FileHeaders(ser[i].out.root, k)
        IN  /\ Len(h) >= 1
            /\ h[1].k = "Content-Disposition"
            /\ StartsWith(h[1].v, a.disposition \o <<";", SP>> \o FilenameParam)
            /\ Tail(h) = a.headers

\* C21: the part of an attachment created with a file name has a
\* Content-Disposition header with the disposition and the filename
\* parameter (the quoted name itself when it is ASCII, not empty and not
\* forced); the part of an attachment created without a file name has none;
\* the attachment's own headers follow, in order.
C21_DispositionWhenNamed ==
    \A i \in DOMAIN ser : \A k \in DOMAIN msg.attachments :
        LET a == msg.attachments[k]
            h == FileHeaders(ser[i].out.root, k)
            pre == a.disposition \o <<";", SP>> \o FilenameParam
        IN  IF a.filename.kind = "none"
            THEN h = a.headers
            ELSE /\ Len(h) >= 1
                 /\ h[1].k = "Content-Disposition"
                 /\ StartsWith(h[1].v, pre)
                 /\ Tail(h) = a.headers
                 /\ (/\ ~mail.ascii_attachments
                     /\ IsAscii(a.filename.text)
                     /\ a.filename.text # <<>>)
                        => h[1].v = pre \o <<"=", "\"">> \o a.filename.text \o <<"\"">>

C21_Witness ==
    /\ ser # <<>>
    /\ Len(msg.attachments) = 1
    /\ msg.attachments[1].filename.kind = "none"
    /\ msg.attachments[1].disposition = <<"attachment">>
    /\ msg.attachments[1].headers # <<>>
    /\ FileHeaders(ser[1].out.root, 1) = msg.attachments[1].headers

\* What the forced name must spell: the letters of the original, the
\* decomposable ones by their ASCII base, the others and all blanks left out.
ForcedLetters(t) ==
    Concat([i \in DOMAIN t |-> IF t[i] = UUml THEN <<"u">>
                               ELSE IF t[i] \in NonAscii \cup Whitespace THEN <<>>
                               ELSE <<t[i]>>])
IsForcedName(name, original) ==
    /\ IsAscii(name)
    /\ SelectSeq(name, LAMBDA c : c \notin Whitespace) = ForcedLetters(original)
    /\ \A j \in DOMAIN name : name[j] \in Whitespace =>
           /\ name[j] = SP
           /\ j \notin {1, Len(name)}
           /\ name[j + 1] \notin Whitespace

\* C22: for a file name with non-ASCII characters, with the forcing off the
\* Content-Disposition has filename*=UTF8''...; with the forcing on it is
\* filename="..." with a quoted ASCII name: the original decomposed, its
\* non-ASCII characters dropped, whitespace runs collapsed, trimmed.
C22_FilenameForms ==
    \A i \in DOMAIN ser : \A k \in DOMAIN msg.attachments :
        LET a == msg.attachments[k]
            h == FileHeaders(ser[i].out.root, k)
            pre == a.disposition \o <<";", SP>> \o FilenameParam
        IN  (a.filename.kind # "none" /\ ~IsAscii(a.filename.text)) =>
               /\ Len(h) >= 1
               /\ h[1].k = "Content-Disposition"
               /\ IF mail.ascii_attachments
                  THEN LET v == h[1].v
                           q == Len(pre) + 2
                       IN  /\ StartsWith(v, pre \o <<"=", "\"">>)
                           /\ Len(v) > q
                           /\ v[Len(v)] = "\""
                           /\ IsForcedName(SubSeq(v, q + 1, Len(v) - 1), a.filename.text)
                  ELSE StartsWith(h[1].v, pre \o <<"*", "=", "U", "T", "F", "8", "'", "'">>)

\* C23: inside a scope with max_emails = N, after k successful sends the
\* counter is k mod N, so it stays below N, and the handle has been
\* recycled floor(k / N) times.
C23_CounterIsModulo ==
    (phase = "open" /\ mail.max_emails # 0) =>
        /\ num_emails = SuccessCount % mail.max_emails
        /\ num_emails >= 0
        /\ num_emails < mail.max_emails
        /\ host # 0 => QuitsInScope = SuccessCount \div mail.max_emails

\* C24 as stated: no send makes the counter smaller than it was.
C24_Original == \A i \in DOMAIN calls : calls[i].n1 >= calls[i].n0

\* C24: a send that delivers adds one to the counter, and the counter goes
\* back to 0 exactly when that makes it reach max_emails; a send that
\* raises before delivery leaves it alone; nothing between two sends
\* changes it.
C24_CounterStepsAndResets ==
    \A i \in DOMAIN calls :
        LET c == calls[i]
            reached == c.n0 + 1 = mail.max_emails
        IN  /\ c.result \in {"ok", "ReconnectError"} =>
                  c.n1 = (IF reached THEN 0 ELSE c.n0 + 1)
            /\ c.result \notin {"ok", "ReconnectError"} => c.n1 = c.n0
            /\ i > 1 => c.n0 = calls[i - 1].n1
            /\ i = Len(calls) => num_emails = c.n1

C24_Witness ==
    \E i \in DOMAIN calls :
        /\ calls[i].phase0 = "open"
        /\ calls[i].n0 = 1
        /\ calls[i].n1 = 0
        /\ i < Len(calls)

\* A handle is open from its successful connect until a quit is called on it.
OpenHandles ==
    {h \in 1..Len(log) :
        /\ \E j \in DOMAIN log : log[j].op = "connect" /\ log[j].h = h /\ log[j].ok
        /\ ~\E j \in DOMAIN log : log[j].op = "quit" /\ log[j].h = h}

\* C25: at most one handle is open at any time, and when a connect is made
\* every handle connected earlier has been quit before it.
C25_OneOpenHandle ==
    /\ Cardinality(OpenHandles) <= 1
    /\ \A j \in DOMAIN log :
          log[j].op = "connect" =>
              \A k \in 1..(j - 1) :
                  (log[k].op = "connect" /\ log[k].ok) =>
                      \E q \in (k + 1)..(j - 1) : log[q].op = "quit" /\ log[q].h = log[k].h

C25_Witness ==
    /\ Cardinality({j \in DOMAIN log : log[j].op = "connect" /\ log[j].ok}) >= 2
    /\ Cardinality(OpenHandles) = 1

\* C26: after scope exit the connection is closed and stays so: no later
\* call on the transport succeeds, nothing is connected again, and a send
\* after exit with a handle raises without transmitting.
AfterExit == exitInfo.log0 + (IF exitInfo.host # 0 THEN 1 ELSE 0)
C26_ClosedIsTerminal ==
    exitInfo.done =>
        /\ phase = "closed"
        /\ \A j \in (AfterExit + 1)..Len(log) : ~log[j].ok /\ log[j].op # "connect"
        /\ \A i \in DOMAIN calls :
              (calls[i].phase0 = "closed" /\ calls[i].host0 # 0) =>
                  /\ calls[i].result \notin {"ok", "ReconnectError"}
                  /\ calls[i].out1 = calls[i].out0
                  /\ calls[i].host1 = calls[i].host0

C26_Witness ==
    /\ exitInfo.done
    /\ exitInfo.open
    /\ \E i \in DOMAIN calls :
          /\ calls[i].phase0 = "closed"
          /\ calls[i].result = "SMTPException"
          /\ calls[i].log1 > calls[i].log0

\* C27: when the scope is over (exited, or entry failed), every handle that
\* was connected has been quit.
C27_EveryHandleQuit ==
    phase \in {"closed", "failed"} =>
        \A j \in DOMAIN log :
            (log[j].op = "connect" /\ log[j].ok) =>
                \E q \in (j + 1)..Len(log) : log[q].op = "quit" /\ log[q].h = log[j].h

\* C28: once quit has been called on a handle, no further call is made on
\* it; after a failed reopening the connection does not hold the handle
\* it quit.
C28_NoCallAfterQuit ==
    /\ \A q \in DOMAIN log :
          log[q].op = "quit" => \A j \in (q + 1)..Len(log) : log[j].h # log[q].h
    /\ \A i \in DOMAIN calls :
          calls[i].result = "ReconnectError" => calls[i].host1 # calls[i].host0

(***************************************************************************)
(* Claims about line breaks in cc and bcc (SpecWire).                      *)
(***************************************************************************)
BreakInRecipients(m) ==
    \E a \in AllRecipients(m) : ContainsBreak(AddrText(a))

\* C29: a send of a message with a CR or LF in an entry of recipients, cc
\* or bcc raises BadHeaderError before any transport call; no envelope
\* recipient handed to sendmail and no Cc entry serialized contains a CR or
\* LF.
C29_NoBreakOnTheWire ==
    \A i \in DOMAIN calls :
        LET c == calls[i]
        IN  /\ BreakInRecipients(c.msg) =>
                  (c.result = "BadHeaderError" /\ c.log1 = c.log0)
            /\ c.args.called =>
                  /\ \A t \in c.args.to : ~ContainsBreak(t.wire)
                  /\ \A v \in c.args.data.headers.Cc.value : ~ContainsBreak(v)
\* The alternative parts of an encoding, none for a single-part one.
AlternativeParts(root) ==
    IF root.parts = <<>> THEN <<>> ELSE Tail(root.parts[1].parts)

\* C30: after construction alts holds every alternative of the alts
\* argument (the html argument, when given, under "html"), html is
\* alts.get("html"), and every alternative passed in, an "html" entry
\* without html argument included, is serialized as an alternative part.
C30_AltsKept ==
    given.done =>
        /\ \A j \in DOMAIN given.alts :
              LET e == given.alts[j]
                  v == IF e.k = HTML /\ given.html.kind # "none" THEN given.html.text
                       ELSE e.v
              IN  /\ DictGet(msg.alts, e.k) = Str(v)
                  /\ \A i \in DOMAIN ser :
                        \E p \in DOMAIN AlternativeParts(ser[i].out.root) :
                            /\ AlternativeParts(ser[i].out.root)[p].ctype = <<"text", e.k>>
                            /\ AlternativeParts(ser[i].out.root)[p].payload = v
        /\ given.html.kind # "none" => DictGet(msg.alts, HTML) = given.html
        /\ Html(msg) = DictGet(msg.alts, HTML)
====
